---------------------------- MODULE Spec2Model ----------------------------
(***************************************************************************)
(* Travel Companion chatbot: the chat turn handler of app.py and the pure  *)
(* helpers it calls (parse_raw_info, clean_places_to_visit,                *)
(* format_info_for_chat, extract_field).                                   *)
(*                                                                         *)
(* Text.  A Python str is a sequence of one-character strings, so that      *)
(* substring tests, regular expressions, strip, lower, title and split are  *)
(* computed character by character as the code computes them.  A character  *)
(* outside ASCII (the emoji of the fixed replies) is the one element        *)
(* "U+<code point>", and so is a control character that has no escape in   *)
(* a string ("U+000B").  The alphabet of the inputs is ASCII.              *)
(*                                                                         *)
(* None.  Python's None is the one-element sequence <<"None">>, which no    *)
(* text equals (its element is not a character).                            *)
(*                                                                         *)
(* dict.  A dict is the sequence of its <<key, value>> items in insertion   *)
(* order; assigning to a key that is present keeps its position.            *)
(*                                                                         *)
(* History.  st.session_state.messages is only appended to and displayed:   *)
(* a turn appends turn.user_input and then turn.bot_reply; a turn cut by an *)
(* exception of get_destination_info (turn.kind = "error") appends          *)
(* turn.user_input alone and binds no bot_reply.                            *)
(*                                                                         *)
(* Time.  time.time() is the variable now, in seconds; it advances by steps  *)
(* of the time to live of the provider's cache.                             *)
(* A local of the handler that is never bound is None.                      *)
(*                                                                         *)
(* Threads.  chatbot_logic._cache belongs to the process, last_city and     *)
(* parsed_info to one session.  The module follows one session at a time    *)
(* (NewSession starts the next one) and one more thread of the process that *)
(* calls get_destination_info: the handler of another session, or the loop  *)
(* of main.chatbot.  A call is not atomic: it reads _cache, waits for the   *)
(* web APIs, then writes _cache; the handler stores last_city and           *)
(* parsed_info after the call has returned.  turn.kind tells where the      *)
(* handler of the session is: "waiting" inside the call after a miss,       *)
(* "returned" with raw_info bound, and otherwise how its last run ended.    *)
(* A prompt is taken when no run of the handler is under way.               *)
(***************************************************************************)
EXTENDS Integers, Sequences, FiniteSets

VARIABLES
    last_city,      \* st.session_state.last_city
    parsed_info,    \* st.session_state.parsed_info
    turn,           \* the locals of the most recent run of the chat turn handler
    fetch_log,      \* history: <<city, blob>> of the latest call of
                    \* get_destination_info that returned to this session
    _cache,         \* chatbot_logic._cache: key -> <<timestamp, reply>>
    now,            \* time.time()
    other,          \* the city of the call the other thread waits in, or None
    fn_in,          \* argument of the helper under test (helper specifications)
    fn_out          \* results of the helper under test, in call order

vars == <<last_city, parsed_info, turn, fetch_log, _cache, now, other, fn_in, fn_out>>

None == <<"None">>

-----------------------------------------------------------------------------
(* Bounds: the input spaces of the helper specifications, and the number   *)
(* of steps of the clock.                                                  *)

MaxTimeSteps == 1

MaxPieces == 4

MaxItems == 3

MaxWords == 3

-----------------------------------------------------------------------------
(* Python str operations.                                                  *)

UPPER == <<"A","B","C","D","E","F","G","H","I","J","K","L","M","N","O","P","Q","R","S","T","U","V","W","X","Y","Z">>

LOWER == <<"a","b","c","d","e","f","g","h","i","j","k","l","m","n","o","p","q","r","s","t","u","v","w","x","y","z">>

DIGITS == {"0","1","2","3","4","5","6","7","8","9"}

\* the white space of ASCII, for str.strip (str.isspace) and for the class \s
\* of re alike: \t \n \x0b \x0c \r \x1c \x1d \x1e \x1f and the space
WS == {" ", "\t", "\n", "U+000B", "\f", "\r", "U+001C", "U+001D", "U+001E", "U+001F"}

UpperSet == {UPPER[i] : i \in 1..26}

LowerSet == {LOWER[i] : i \in 1..26}

ToLower == [c \in UpperSet |-> LOWER[CHOOSE i \in 1..26 : UPPER[i] = c]]

ToUpper == [c \in LowerSet |-> UPPER[CHOOSE i \in 1..26 : LOWER[i] = c]]

IsLetter(c) == c \in UpperSet \/ c \in LowerSet

\* the class \w of re: [A-Za-z0-9_]
IsWordChar(c) == IsLetter(c) \/ c \in DIGITS \/ c = "_"

\* str.lower()
lower(s) == [i \in 1..Len(s) |-> IF s[i] \in UpperSet THEN ToLower[s[i]] ELSE s[i]]

\* str.title(): a letter is upper-cased when the character before it is not
\* a letter, lower-cased otherwise
title(s) ==
    [i \in 1..Len(s) |->
        IF ~IsLetter(s[i]) THEN s[i]
        ELSE IF i > 1 /\ IsLetter(s[i-1])
             THEN (IF s[i] \in UpperSet THEN ToLower[s[i]] ELSE s[i])
             ELSE (IF s[i] \in LowerSet THEN ToUpper[s[i]] ELSE s[i])]

\* str.lstrip()
lstrip(s) ==
    IF \A i \in 1..Len(s) : s[i] \in WS THEN <<>>
    ELSE SubSeq(s, CHOOSE i \in 1..Len(s) :
                       s[i] \notin WS /\ \A j \in 1..(i-1) : s[j] \in WS, Len(s))

\* str.rstrip()
rstrip(s) ==
    IF \A i \in 1..Len(s) : s[i] \in WS THEN <<>>
    ELSE SubSeq(s, 1, CHOOSE i \in 1..Len(s) :
                          s[i] \notin WS /\ \A j \in (i+1)..Len(s) : s[j] \in WS)

\* str.strip()
strip(s) == rstrip(lstrip(s))

\* str.rstrip(":")
rstrip_colon(s) ==
    IF \A i \in 1..Len(s) : s[i] = ":" THEN <<>>
    ELSE SubSeq(s, 1, CHOOSE i \in 1..Len(s) :
                          s[i] # ":" /\ \A j \in (i+1)..Len(s) : s[j] = ":")

\* s[i-1:].startswith(p), i counted from 1
StartsWithAt(s, i, p) ==
    /\ i + Len(p) - 1 <= Len(s)
    /\ \A k \in 1..Len(p) : s[i + k - 1] = p[k]

\* s.endswith(p)
endswith(s, p) == Len(p) <= Len(s) /\ StartsWithAt(s, Len(s) - Len(p) + 1, p)

\* p in s
Contains(s, p) == \E i \in 1..(Len(s) - Len(p) + 1) : StartsWithAt(s, i, p)

\* any(word in s for word in words)
ContainsAny(s, words) == \E w \in 1..Len(words) : Contains(s, words[w])

RECURSIVE Concat(_)
\* "".join(ss)
Concat(ss) == IF ss = <<>> THEN <<>> ELSE Head(ss) \o Concat(Tail(ss))

RECURSIVE Join(_, _)
\* sep.join(ss)
Join(sep, ss) ==
    IF ss = <<>> THEN <<>>
    ELSE IF Len(ss) = 1 THEN ss[1]
    ELSE ss[1] \o sep \o Join(sep, Tail(ss))

RECURSIVE SplitOn(_, _, _, _, _)
\* the pieces of s from position from on, cuts being the separator positions
SplitOn(s, c, cuts, from, acc) ==
    LET ahead == {i \in cuts : i >= from}
    IN  IF ahead = {} THEN Append(acc, SubSeq(s, from, Len(s)))
        ELSE LET i == CHOOSE i \in ahead : \A j \in ahead : i <= j
             IN  SplitOn(s, c, cuts, i + 1, Append(acc, SubSeq(s, from, i - 1)))

\* s.split(c) for a one-character separator
split(s, c) == SplitOn(s, c, {i \in 1..Len(s) : s[i] = c}, 1, <<>>)

-----------------------------------------------------------------------------
(* dict                                                                    *)

DictKeys(d) == {d[i][1] : i \in 1..Len(d)}

DictHas(d, k) == \E i \in 1..Len(d) : d[i][1] = k

DictGet(d, k) == d[CHOOSE i \in 1..Len(d) : d[i][1] = k][2]

\* d[k] = v
DictSet(d, k, v) ==
    IF DictHas(d, k)
    THEN [i \in 1..Len(d) |-> IF d[i][1] = k THEN <<k, v>> ELSE d[i]]
    ELSE Append(d, <<k, v>>)

-----------------------------------------------------------------------------
(* parse_raw_info                                                          *)

keys ==
    << <<"D","e","s","t","i","n","a","t","i","o","n">>,
       <<"C","o","u","n","t","r","y">>,
       <<"C","o","o","r","d","i","n","a","t","e","s">>,
       <<"S","t","a","n","d","a","r","d"," ","T","i","m","e"," ","/"," ","T","i","m","e","z","o","n","e">>,
       <<"C","u","r","r","e","n","c","y">>,
       <<"C","u","r","r","e","n","t"," ","W","e","a","t","h","e","r">>,
       <<"P","l","a","c","e","s"," ","t","o"," ","V","i","s","i","t">>,
       <<"D","e","s","c","r","i","p","t","i","o","n"," ","(","s","h","o","r","t",")">>,
       <<"T","r","a","v","e","l"," ","T","i","p","s">> >>

\* the alternatives of the split pattern, re.escape(k + ":") for k in keys
pattern == [i \in 1..Len(keys) |-> keys[i] \o <<":">>]

\* the characters an alternative starts with
PatternInitials == {pattern[a][1] : a \in 1..Len(pattern)}

\* The alternative the pattern matches at position i: the first in pattern
\* order, 0 when none does.
MatchAt(s, i) ==
    IF s[i] \notin PatternInitials THEN 0
    ELSE IF \E a \in 1..Len(pattern) : StartsWithAt(s, i, pattern[a])
    THEN CHOOSE a \in 1..Len(pattern) :
            /\ StartsWithAt(s, i, pattern[a])
            /\ \A b \in 1..(a-1) : ~StartsWithAt(s, i, pattern[b])
    ELSE 0

\* the positions where an alternative of the pattern matches
MatchStarts(s) == {i \in 1..Len(s) : MatchAt(s, i) # 0}

Min(S) == CHOOSE i \in S : \A j \in S : i <= j

RECURSIVE SplitScan(_, _, _, _)
\* the scan of re.split from position from: the next match is the leftmost
\* one at or after from, and the scan goes on behind it
SplitScan(s, starts, from, acc) ==
    LET ahead == {i \in starts : i >= from}
    IN  IF ahead = {} THEN Append(acc, SubSeq(s, from, Len(s)))
        ELSE LET i == Min(ahead)
                 delimiter == pattern[MatchAt(s, i)]
             IN  SplitScan(s, starts, i + Len(delimiter),
                           acc \o <<SubSeq(s, from, i - 1), delimiter>>)

RECURSIVE SplitScanNoCapture(_, _, _, _)
SplitScanNoCapture(s, starts, from, acc) ==
    LET ahead == {i \in starts : i >= from}
    IN  IF ahead = {} THEN Append(acc, SubSeq(s, from, Len(s)))
        ELSE LET i == Min(ahead)
                 delimiter == pattern[MatchAt(s, i)]
             IN  SplitScanNoCapture(s, starts, i + Len(delimiter),
                                    Append(acc, SubSeq(s, from, i - 1)))

\* A plausible slip: the pattern without its capturing group, so that the
\* delimiters are not kept among the pieces.
re_split_nocapture(info_text) ==
    SplitScanNoCapture(info_text, MatchStarts(info_text), 1, <<>>)

\* re.split(f"({pattern})", info_text): the texts between the matches and
\* the matches themselves, alternating, texts at the odd places
re_split(info_text) == SplitScan(info_text, MatchStarts(info_text), 1, <<>>)

\* part.endswith(":")
IsKeyPart(part) == endswith(part, <<":">>)

RECURSIVE WalkParts(_, _, _, _)
\* the loop over parts; cur is current_key
WalkParts(parts, i, parsed_data, cur) ==
    IF i > Len(parts) THEN parsed_data
    ELSE LET part == parts[i]
         IN  IF strip(part) = <<>>
             THEN WalkParts(parts, i + 1, parsed_data, cur)
             ELSE IF IsKeyPart(part)
             THEN WalkParts(parts, i + 1, parsed_data, strip(rstrip_colon(part)))
             ELSE IF cur # None /\ cur # <<>>
             THEN WalkParts(parts, i + 1, DictSet(parsed_data, cur, strip(part)), None)
             ELSE WalkParts(parts, i + 1, parsed_data, cur)

parse_raw_info(info_text) ==
    IF info_text = <<>> THEN <<>>
    ELSE WalkParts(re_split(info_text), 1, <<>>, None)

-----------------------------------------------------------------------------
(* clean_places_to_visit                                                   *)

NoSitesListed == <<"N","o"," ","s","p","e","c","i","f","i","c"," ","s","i","t","e","s"," ","l","i","s","t","e","d",".">>

keywords == << <<"e","l","e","c","t","i","o","n">>, <<"f","i","l","m">>, <<"m","o","v","i","e">>, <<"r","a","c","e">>, <<"t","i","t","l","e">> >>

\* re.search(r'\b\d{4}\b', item): four digits with a word boundary on each side
year_search(item) ==
    \E i \in 1..(Len(item) - 3) :
        /\ \A k \in 0..3 : item[i + k] \in DIGITS
        /\ (i = 1 \/ ~IsWordChar(item[i - 1]))
        /\ (i + 3 = Len(item) \/ ~IsWordChar(item[i + 4]))

\* A plausible slip: the keywords looked up in item instead of item.lower().
IsSkippedCaseSensitive(item) == year_search(item) \/ ContainsAny(item, keywords)

\* the condition of the continue statement
IsSkipped(item) == year_search(item) \/ ContainsAny(lower(item), keywords)

RECURSIVE CleanLoop(_, _, _)
CleanLoop(items, i, cleaned_items) ==
    IF i > Len(items) THEN cleaned_items
    ELSE IF IsSkipped(items[i])
         THEN CleanLoop(items, i + 1, cleaned_items)
         ELSE CleanLoop(items, i + 1, Append(cleaned_items, items[i]))

clean_places_to_visit(raw_places_string) ==
    IF raw_places_string = <<>> THEN NoSitesListed
    ELSE LET parts == split(raw_places_string, ",")
             items == [i \in 1..Len(parts) |-> strip(parts[i])]
             cleaned_items == CleanLoop(items, 1, <<>>)
         IN  IF cleaned_items = <<>> THEN NoSitesListed
             ELSE Join(<<","," ">>, cleaned_items)

-----------------------------------------------------------------------------
(* format_info_for_chat and extract_field                                  *)

PlacesToVisit == <<"P","l","a","c","e","s"," ","t","o"," ","V","i","s","i","t">>

LongFields == { <<"D","e","s","c","r","i","p","t","i","o","n"," ","(","s","h","o","r","t",")">>, PlacesToVisit, <<"T","r","a","v","e","l"," ","T","i","p","s">> }

RECURSIVE FormatLoop(_, _, _)
FormatLoop(parsed_data, i, formatted_output) ==
    IF i > Len(parsed_data) THEN formatted_output
    ELSE LET key == parsed_data[i][1]
             value == parsed_data[i][2]
             cleaned_value == IF key = PlacesToVisit
                              THEN clean_places_to_visit(value) ELSE value
         IN  IF key \in LongFields
             THEN FormatLoop(parsed_data, i + 1,
                     formatted_output \o
                     << <<"\n","-","-","-">>,
                        <<"*","*">> \o key \o <<":","*","*","\n">> \o cleaned_value \o <<"\n">> >>)
             ELSE FormatLoop(parsed_data, i + 1,
                     Append(formatted_output,
                            <<"*">> \o key \o <<":","*"," ","*","*">> \o value \o <<"*","*">>))

format_info_for_chat(parsed_data) ==
    IF parsed_data = <<>> THEN <<"N","o"," ","d","e","s","t","i","n","a","t","i","o","n"," ","i","n","f","o","r","m","a","t","i","o","n"," ","a","v","a","i","l","a","b","l","e",".">>
    ELSE Join(<<"\n">>, FormatLoop(parsed_data, 1, <<>>))

extract_field(parsed_data, field_name) ==
    IF parsed_data = <<>>
    THEN <<"S","o","r","r","y",","," ","I"," ","c","o","u","l","d","n","'","t"," ","f","i","n","d"," ">> \o lower(field_name) \o <<" ","i","n","f","o","r","m","a","t","i","o","n",".">>
    ELSE IF DictHas(parsed_data, field_name)
    THEN LET value == IF field_name = PlacesToVisit
                      THEN clean_places_to_visit(DictGet(parsed_data, field_name))
                      ELSE DictGet(parsed_data, field_name)
         IN  <<"*","*">> \o field_name \o <<":","*","*"," ">> \o value
    ELSE <<"S","o","r","r","y",","," ","I"," ","c","o","u","l","d","n","'","t"," ","f","i","n","d"," ">> \o lower(field_name)
             \o <<" ","i","n","f","o","r","m","a","t","i","o","n"," ","f","o","r"," ","t","h","a","t"," ","d","e","s","t","i","n","a","t","i","o","n",".">>

-----------------------------------------------------------------------------
(* The chat turn: greeting and farewell words, field and city detection     *)

greetings == << <<"h","i">>, <<"h","e","l","l","o">>, <<"h","e","y">>, <<"h","o","l","a">> >>

farewells == << <<"b","y","e">>, <<"g","o","o","d","b","y","e">>, <<"s","e","e"," ","y","o","u">>, <<"e","x","i","t">>, <<"q","u","i","t">> >>

\* the dict fields, alias -> canonical field name, in insertion order
fields ==
    << << <<"c","o","u","n","t","r","y">>,     <<"C","o","u","n","t","r","y">> >>,
       << <<"c","o","o","r","d","i","n","a","t","e">>,  <<"C","o","o","r","d","i","n","a","t","e","s">> >>,
       << <<"l","o","c","a","t","i","o","n">>,    <<"C","o","o","r","d","i","n","a","t","e","s">> >>,
       << <<"t","i","m","e">>,        <<"S","t","a","n","d","a","r","d"," ","T","i","m","e"," ","/"," ","T","i","m","e","z","o","n","e">> >>,
       << <<"t","i","m","e","z","o","n","e">>,    <<"S","t","a","n","d","a","r","d"," ","T","i","m","e"," ","/"," ","T","i","m","e","z","o","n","e">> >>,
       << <<"c","u","r","r","e","n","c","y">>,    <<"C","u","r","r","e","n","c","y">> >>,
       << <<"w","e","a","t","h","e","r">>,     <<"C","u","r","r","e","n","t"," ","W","e","a","t","h","e","r">> >>,
       << <<"p","l","a","c","e">>,       <<"P","l","a","c","e","s"," ","t","o"," ","V","i","s","i","t">> >>,
       << <<"a","t","t","r","a","c","t","i","o","n">>,  <<"P","l","a","c","e","s"," ","t","o"," ","V","i","s","i","t">> >>,
       << <<"d","e","s","c","r","i","p","t","i","o","n">>, <<"D","e","s","c","r","i","p","t","i","o","n"," ","(","s","h","o","r","t",")">> >>,
       << <<"t","i","p">>,         <<"T","r","a","v","e","l"," ","T","i","p","s">> >> >>

RECURSIVE FieldLoopLast(_, _, _)
FieldLoopLast(lower_input, i, found) ==
    IF i > Len(fields) THEN found
    ELSE IF Contains(lower_input, fields[i][1])
         THEN FieldLoopLast(lower_input, i + 1, fields[i][2])
         ELSE FieldLoopLast(lower_input, i + 1, found)

\* A plausible slip: the loop without its break, so that the last alias wins.
DetectFieldNoBreak(lower_input) == FieldLoopLast(lower_input, 1, None)

RECURSIVE FieldLoop(_, _)
FieldLoop(lower_input, i) ==
    IF i > Len(fields) THEN None
    ELSE IF Contains(lower_input, fields[i][1]) THEN fields[i][2]
    ELSE FieldLoop(lower_input, i + 1)

\* found_field after the loop "for key in fields"
DetectField(lower_input) == FieldLoop(lower_input, 1)

\* the class [a-zA-Z\s,]
IsCityChar(c) == IsLetter(c) \/ c \in WS \/ c = ","

\* r"(?:in|of)\s+([a-zA-Z\s,]+)$" matches at position i: "in" or "of", one
\* white space at least, then one character at least of the class up to the
\* end (the class holds \s, so the two repetitions share the white space)
CityMatchAt(s, i) ==
    /\ StartsWithAt(s, i, <<"i","n">>) \/ StartsWithAt(s, i, <<"o","f">>)
    /\ i + 3 <= Len(s)
    /\ s[i + 2] \in WS
    /\ \A j \in (i + 3)..Len(s) : IsCityChar(s[j])

\* group(1) of the match at i: \s+ is greedy and gives back one character
\* only when nothing but white space follows
CityGroup(s, i) ==
    IF \E j \in (i + 2)..Len(s) : s[j] \notin WS
    THEN SubSeq(s, CHOOSE j \in (i + 2)..Len(s) :
                       s[j] \notin WS /\ \A k \in (i + 2)..(j - 1) : s[k] \in WS,
                Len(s))
    ELSE SubSeq(s, Len(s), Len(s))

\* re.search: the match at the leftmost position, None without one
city_search(s) ==
    IF \E i \in 1..Len(s) : CityMatchAt(s, i)
    THEN CityGroup(s, CHOOSE i \in 1..Len(s) :
                          CityMatchAt(s, i) /\ \A j \in 1..(i - 1) : ~CityMatchAt(s, j))
    ELSE None

\* city after the if/else on match
DetectCity(user_input, lower_input) ==
    LET group == city_search(lower_input)
    IN  IF group # None THEN title(strip(group)) ELSE title(user_input)

IsGreeting(lower_input) == ContainsAny(lower_input, greetings)

IsFarewell(lower_input) == ContainsAny(lower_input, farewells)

GreetingReply ==
    <<"U+1F44B"," ","H","e","l","l","o"," ","t","h","e","r","e","!"," ","P","l","e","a","s","e"," ","e","n","t","e","r"," ","a"," ","d","e","s","t","i","n","a","t","i","o","n"," ","n","a","m","e"," ","t","o"," ","g","e","t"," ","t","r","a","v","e","l"," ","i","n","f","o","r","m","a","t","i","o","n",".">>

FarewellReply ==
    <<"U+1F60A"," ","T","h","a","n","k"," ","y","o","u"," ","f","o","r"," ","c","h","a","t","t","i","n","g"," ","w","i","t","h"," ","m","e","!"," ","H","a","v","e"," ","a"," ","g","r","e","a","t"," ","j","o","u","r","n","e","y"," ","a","h","e","a","d","!"," ","U+2708","U+FE0F">>

EnglishOnlyReply ==
    <<"S","o","r","r","y",","," ","I"," ","c","a","n"," ","o","n","l","y"," ","r","e","s","p","o","n","d"," ","i","n"," ","E","n","g","l","i","s","h","."," ","P","l","e","a","s","e"," ","t","y","p","e"," ","i","n"," ","E","n","g","l","i","s","h",".">>

UnknownCityReply(city) ==
    <<"S","o","r","r","y",","," ","I"," ","c","o","u","l","d","n","'","t"," ","f","i","n","d"," ","d","a","t","a"," ","f","o","r"," ","'">> \o city
        \o <<"'","."," ","M","a","k","e"," ","s","u","r","e"," ","t","h","e"," ","c","i","t","y"," ","n","a","m","e"," ","i","s"," ","s","p","e","l","l","e","d"," ","c","o","r","r","e","c","t","l","y",".">>

\* st.session_state.last_city == city and st.session_state.parsed_info
current_info_is_valid(city) == last_city = city /\ parsed_info # <<>>

\* A plausible slip: the cache consulted whatever the request.
NeedFetchIgnoringField(valid, found_field) == ~valid

\* not current_info_is_valid or not found_field
NeedFetch(valid, found_field) == ~valid \/ found_field = None

\* A plausible slip: an empty record is not cached.
CacheStoreNonEmpty(city, parsed_data) ==
    IF parsed_data = <<>> THEN <<last_city, parsed_info>> ELSE <<city, parsed_data>>

\* the new <<last_city, parsed_info>> after a fetch
CacheStore(city, parsed_data) == <<city, parsed_data>>

\* the codes detect_language returns: "en", or another language
English == <<"e","n">>

Languages == { English, <<"f","r">> }

\* A plausible slip: the language test made before the emptiness test.
ReplyOutcomesLanguageFirst(parsed_data, found_field, city) ==
    { [lang_checked |-> TRUE,
       bot_reply |-> IF lang # English THEN EnglishOnlyReply
                     ELSE IF parsed_data = <<>> THEN UnknownCityReply(city)
                     ELSE IF found_field # None
                          THEN extract_field(parsed_data, found_field)
                          ELSE format_info_for_chat(parsed_data)]
      : lang \in Languages }

\* A plausible slip: no emptiness test, the record is rendered as it is.
ReplyOutcomesNoEmptyTest(parsed_data, found_field, city) ==
    { [lang_checked |-> FALSE,
       bot_reply |-> IF found_field # None
                     THEN extract_field(parsed_data, found_field)
                     ELSE format_info_for_chat(parsed_data)] }

\* "Language Check and General Error Handling": the replies the turn can
\* give, one for each answer of detect_language when it is called
ReplyOutcomes(parsed_data, found_field, city) ==
    IF parsed_data = <<>>
    THEN { [lang_checked |-> TRUE,
            bot_reply |-> IF lang # English THEN EnglishOnlyReply
                          ELSE UnknownCityReply(city)] : lang \in Languages }
    ELSE { [lang_checked |-> FALSE,
            bot_reply |-> IF found_field # None
                          THEN extract_field(parsed_data, found_field)
                          ELSE format_info_for_chat(parsed_data)] }

-----------------------------------------------------------------------------
(* get_destination_info.  The answers of the web APIs are inputs: the      *)
(* weather lookup gives nothing (the apology), or the lookups give the     *)
(* data of BuiltReplies, or a lookup raises (requests.get and r.json() in  *)
(* _get_weather are outside any try, and so is the [0] of the "weather"    *)
(* list of the answer).  save_destination_to_supabase writes, inside a     *)
(* try, to a database that nothing here reads: it is left out.             *)

CACHE_TTL == 3600

\* the reply when the weather lookup fails
NotFoundBlob(city_name) ==
    <<"S","o","r","r","y",","," ","I"," ","c","o","u","l","d","n","'","t"," ","f","i","n","d"," ","d","a","t","a"," ","f","o","r"," ","'">> \o city_name
        \o <<"'","."," ","M","a","k","e"," ","s","u","r","e"," ","t","h","e"," ","c","i","t","y"," ","n","a","m","e"," ","i","s"," ","s","p","e","l","l","e","d"," ","c","o","r","r","e","c","t","l","y",".">>

\* "Step 5: Build reply"
ProviderReply(name, country_name, lat, lon, timezone, currency_code, currency_name, temp, weather_desc, attractions_str, summary) ==
    <<"D","e","s","t","i","n","a","t","i","o","n",":"," ">> \o name \o <<"\n">>
    \o <<"C","o","u","n","t","r","y",":"," ">> \o country_name \o <<"\n">>
    \o <<"C","o","o","r","d","i","n","a","t","e","s",":"," ">> \o lat \o <<","," ">> \o lon \o <<"\n">>
    \o <<"S","t","a","n","d","a","r","d"," ","T","i","m","e"," ","/"," ","T","i","m","e","z","o","n","e",":"," ">> \o timezone \o <<"\n">>
    \o <<"C","u","r","r","e","n","c","y",":"," ">> \o currency_code \o <<" ","(">> \o currency_name \o <<")","\n">>
    \o <<"C","u","r","r","e","n","t"," ","W","e","a","t","h","e","r",":"," ">> \o temp \o <<"U+00B0","C",","," ">> \o weather_desc \o <<"\n">>
    \o <<"P","l","a","c","e","s"," ","t","o"," ","V","i","s","i","t",":"," ">> \o attractions_str \o <<"\n">>
    \o <<"D","e","s","c","r","i","p","t","i","o","n"," ","(","s","h","o","r","t",")",":"," ">> \o summary \o <<"\n">>
    \o <<"T","r","a","v","e","l"," ","T","i","p","s",":"," ","C","h","e","c","k"," ","v","i","s","a"," ","r","e","q","u","i","r","e","m","e","n","t","s",","," ","l","o","c","a","l"," ","c","o","v","i","d","/","t","r","a","v","e","l"," ","r","u","l","e","s",","," ","a","n","d"," ","l","o","c","a","l"," ","t","r","a","n","s","p","o","r","t"," ","o","p","t","i","o","n","s",".","\n">>

\* "Step 2" to "Step 5" for the answers of the APIs: for Paris a country
\* with currency and time zone, attractions and a summary; for another city
\* a country code alone, the country lookup and wikipedia giving nothing
BuiltReplies(city_name) ==
    { IF lower(strip(city_name)) = <<"p","a","r","i","s">>
      THEN ProviderReply(city_name, <<"F","r","a","n","c","e">>, <<"4","8",".","8","5">>, <<"2",".","3","5">>, <<"U","T","C","+","0","1",":","0","0">>,
                         <<"E","U","R">>, <<"E","u","r","o">>, <<"1","8",".","2">>, <<"c","l","e","a","r"," ","s","k","y">>,
                         <<"L","o","u","v","r","e",","," ","2","0","2","4"," ","S","u","m","m","e","r"," ","O","l","y","m","p","i","c","s",","," ","E","i","f","f","e","l"," ","T","o","w","e","r">>,
                         <<"P","a","r","i","s"," ","i","s"," ","t","h","e"," ","c","a","p","i","t","a","l"," ","o","f"," ","F","r","a","n","c","e",".">>)
      ELSE ProviderReply(city_name, <<"G","B">>, <<"5","1",".","5","1">>, <<"-","0",".","1","3">>, <<"N","/","A">>,
                         <<"N","/","A">>, <<"N","/","A">>, <<"1","1",".","0">>, <<"m","i","s","t">>,
                         <<"N","o"," ","a","t","t","r","a","c","t","i","o","n"," ","d","a","t","a"," ","a","v","a","i","l","a","b","l","e",".">>,
                         <<"N","o"," ","d","e","s","c","r","i","p","t","i","o","n"," ","a","v","a","i","l","a","b","l","e",".">>) }

\* the start of get_destination_info: the reply of an entry of _cache
\* younger than CACHE_TTL, None without one (the APIs are asked then)
cached_reply(city_name) ==
    LET key == lower(strip(city_name))
    IN  IF DictHas(_cache, key) /\ now - DictGet(_cache, key)[1] < CACHE_TTL
        THEN DictGet(_cache, key)[2]
        ELSE None

\* the replies of a call whose lookups do not raise
AnsweredReplies(city_name) == {NotFoundBlob(city_name)} \cup BuiltReplies(city_name)

\* _cache[key] = (time.time(), reply)
CacheWrite(city_name, reply) == DictSet(_cache, lower(strip(city_name)), <<now, reply>>)

\* the time that passes in one step of the clock
TimeStep == CACHE_TTL

-----------------------------------------------------------------------------
(* The chat turn handler ("if prompt:")                                    *)

ChatPrompts ==
    { <<"t","i","m","e"," ","o","f"," ","D","e","l","h","i">>, <<"P","a","r","i","s">>, <<"w","e","a","t","h","e","r"," ","i","n","\f","p","a","r","i","s"," ">>, <<"L","o","n","d","o","n">>,
      <<"H","e","l","l","o">>, <<"b","y","e">> }

NoTurn ==
    [kind |-> "none", user_input |-> <<>>, city |-> None, found_field |-> None,
     fetched |-> FALSE, raw_info |-> None, parsed_data |-> None,
     lang_checked |-> FALSE, bot_reply |-> None]

\* a run of the handler is under way
InFlight == {"waiting", "returned"}

\* The handler from the prompt up to the reply, or up to the call of
\* get_destination_info: the call returns at once with an entry of _cache,
\* and waits for the APIs without one.
\* A local of the handler is bound once, as the assignment binds it:
\* \E x \in {e} stands for x = e.
ChatTurn(prompt) ==
    /\ turn.kind \notin InFlight
    /\ prompt # <<>>
    /\ \E user_input \in {strip(prompt)} :
       \E lower_input \in {lower(user_input)} :
         IF IsGreeting(lower_input)
         THEN /\ turn' = [NoTurn EXCEPT !.kind = "greeting", !.user_input = user_input,
                                        !.bot_reply = GreetingReply]
              /\ UNCHANGED fetch_log
         ELSE IF IsFarewell(lower_input)
         THEN /\ turn' = [NoTurn EXCEPT !.kind = "farewell", !.user_input = user_input,
                                        !.bot_reply = FarewellReply]
              /\ UNCHANGED fetch_log
         ELSE \E city \in {DetectCity(user_input, lower_input)} :
              \E found_field \in {DetectField(lower_input)} :
                IF NeedFetch(current_info_is_valid(city), found_field)
                THEN \E reply \in {cached_reply(city)} :
                       /\ turn' = [NoTurn EXCEPT
                                     !.kind = IF reply = None THEN "waiting" ELSE "returned",
                                     !.user_input = user_input,
                                     !.city = city,
                                     !.found_field = found_field,
                                     !.fetched = TRUE,
                                     !.raw_info = reply]
                       /\ fetch_log' = IF reply = None THEN fetch_log ELSE <<city, reply>>
                ELSE /\ \E o \in ReplyOutcomes(parsed_info, found_field, city) :
                          turn' = [kind |-> "query", user_input |-> user_input,
                                   city |-> city, found_field |-> found_field,
                                   fetched |-> FALSE, raw_info |-> None,
                                   parsed_data |-> parsed_info,
                                   lang_checked |-> o.lang_checked,
                                   bot_reply |-> o.bot_reply]
                     /\ UNCHANGED fetch_log
    /\ UNCHANGED <<last_city, parsed_info, _cache, now, other, fn_in, fn_out>>

\* The call of the handler comes back from the APIs: a lookup raises, which
\* ends the run of the script, or the reply is stored in _cache and returned.
ProviderReturns ==
    /\ turn.kind = "waiting"
    /\ \/ /\ turn' = [turn EXCEPT !.kind = "error"]
          /\ UNCHANGED <<_cache, fetch_log>>
       \/ \E reply \in AnsweredReplies(turn.city) :
             /\ _cache' = CacheWrite(turn.city, reply)
             /\ turn' = [turn EXCEPT !.kind = "returned", !.raw_info = reply]
             /\ fetch_log' = <<turn.city, reply>>
    /\ UNCHANGED <<last_city, parsed_info, now, other, fn_in, fn_out>>

\* The handler after the call: the blob is parsed, city and record are
\* stored in the session and the reply is chosen.
StoreAndReply ==
    /\ turn.kind = "returned"
    /\ \E parsed_data \in {parse_raw_info(turn.raw_info)} :
       \E stored \in {CacheStore(turn.city, parsed_data)} :
         /\ last_city' = stored[1]
         /\ parsed_info' = stored[2]
         /\ \E o \in ReplyOutcomes(parsed_data, turn.found_field, turn.city) :
              turn' = [turn EXCEPT !.kind = "query",
                                   !.parsed_data = parsed_data,
                                   !.lang_checked = o.lang_checked,
                                   !.bot_reply = o.bot_reply]
    /\ UNCHANGED <<fetch_log, _cache, now, other, fn_in, fn_out>>

\* A new session of the same process: "Initialize Session State".  The
\* module follows the new session from here on.
NewSession ==
    /\ turn.kind \notin InFlight
    /\ last_city' = None
    /\ parsed_info' = <<>>
    /\ turn' = NoTurn
    /\ fetch_log' = <<>>
    /\ UNCHANGED <<_cache, now, other, fn_in, fn_out>>

\* The handler of another session reaches its call of get_destination_info
\* (its own last_city and parsed_info are not followed: it may fetch for
\* any city it resolves) and finds no entry to return.
OtherSessionFetch(prompt) ==
    /\ other = None
    /\ \E user_input \in {strip(prompt)} :
       \E lower_input \in {lower(user_input)} :
         /\ ~IsGreeting(lower_input)
         /\ ~IsFarewell(lower_input)
         /\ \E city \in {DetectCity(user_input, lower_input)} :
              /\ cached_reply(city) = None
              /\ other' = city
    /\ UNCHANGED <<last_city, parsed_info, turn, fetch_log, _cache, now, fn_in, fn_out>>

\* len(user_input.split()): the words are separated by white space
WordCount(s) ==
    Cardinality({i \in 1..Len(s) : s[i] \notin WS /\ (i = 1 \/ s[i - 1] \in WS)})

\* main.chatbot, one pass of its loop on a line of input: the city asked of
\* get_destination_info, None when the pass asks for none (an exit word, a
\* text of several words taken for non-English, a greeting)
chatbot_city(line, lang) ==
    LET user_input == strip(line)
    IN  IF lower(user_input) \in { <<"b","y","e">>, <<"e","x","i","t">>, <<"q","u","i","t">> } THEN None
        ELSE IF WordCount(user_input) > 1 /\ lang # English THEN None
        ELSE IF lower(user_input) \in { <<"h","i">>, <<"h","e","l","l","o">>, <<"h","e","y">> } THEN None
        ELSE title(user_input)

\* the lines typed to main.chatbot
ChatbotLines == { <<" ","p","a","r","i","s">>, <<"L","o","n","d","o","n">>, <<"b","y","e">>, <<"h","e","l","l","o">> }

\* main.chatbot reaches its call of get_destination_info and finds no entry
\* to return
chatbot(line) ==
    /\ other = None
    /\ \E lang \in Languages :
       \E city \in {chatbot_city(line, lang)} :
         /\ city # None
         /\ cached_reply(city) = None
         /\ other' = city
    /\ UNCHANGED <<last_city, parsed_info, turn, fetch_log, _cache, now, fn_in, fn_out>>

\* The call of the other thread comes back from the APIs.
OtherReturns ==
    /\ other # None
    /\ other' = None
    /\ \/ UNCHANGED _cache
       \/ \E reply \in AnsweredReplies(other) : _cache' = CacheWrite(other, reply)
    /\ UNCHANGED <<last_city, parsed_info, turn, fetch_log, now, fn_in, fn_out>>

\* time passes
TimePasses ==
    /\ now + TimeStep <= MaxTimeSteps * TimeStep
    /\ now' = now + TimeStep
    /\ UNCHANGED <<last_city, parsed_info, turn, fetch_log, _cache, other, fn_in, fn_out>>

Init ==
    /\ last_city = None
    /\ parsed_info = <<>>
    /\ turn = NoTurn
    /\ fetch_log = <<>>
    /\ _cache = <<>>
    /\ now = 0
    /\ other = None
    /\ fn_in = <<>>
    /\ fn_out = <<>>

Next ==
    \/ \E prompt \in ChatPrompts : ChatTurn(prompt)
    \/ ProviderReturns
    \/ StoreAndReply
    \/ NewSession
    \/ \E prompt \in ChatPrompts : OtherSessionFetch(prompt)
    \/ \E line \in ChatbotLines : chatbot(line)
    \/ OtherReturns
    \/ TimePasses

Spec == Init /\ [][Next]_vars

-----------------------------------------------------------------------------
(* Specification of parse_raw_info alone: a blob is a concatenation of at   *)
(* most MaxPieces pieces.                                                  *)

ParserPieces ==
    { <<"C","o","u","n","t","r","y",":">>, <<"C","u","r","r","e","n","c","y",":">>, <<"I","n","d","i","a"," ">>, <<"I","N","R">>, <<"a","b","c",":">>, <<" ">> }

ParserBlobs ==
    {Concat(ps) : ps \in UNION {[1..n -> ParserPieces] : n \in 0..MaxPieces}}

ChatIdle ==
    /\ last_city = None
    /\ parsed_info = <<>>
    /\ turn = NoTurn
    /\ fetch_log = <<>>
    /\ _cache = <<>>
    /\ now = 0
    /\ other = None

InitParser ==
    /\ ChatIdle
    /\ fn_in \in ParserBlobs
    /\ fn_out = <<>>

ParseCall ==
    /\ fn_out = <<>>
    /\ fn_out' = <<parse_raw_info(fn_in)>>
    /\ UNCHANGED <<last_city, parsed_info, turn, fetch_log, _cache, now, other, fn_in>>

SpecParser == InitParser /\ [][ParseCall]_vars

-----------------------------------------------------------------------------
(* Specification of clean_places_to_visit alone: the input is at most       *)
(* MaxItems items joined by commas (or the example of the documentation);   *)
(* the function is applied to the input and then to its own result.         *)

FilterItems ==
    { <<"P","a","r","i","s">>, <<"2","0","2","4"," ","O","l","y","m","p","i","c","s">>, <<"E","i","f","f","e","l"," ","T","o","w","e","r">>, <<"2","0","2","3"," ","F","i","l","m"," ","F","e","s","t","i","v","a","l">>,
      <<" ","\f","R","a","c","e"," ","T","r","a","c","k">>, <<"a","2","0","2","4">>, <<>>, <<" ">> }

FilterExample == <<"P","a","r","i","s",",","2","0","2","4"," ","O","l","y","m","p","i","c","s",",","E","i","f","f","e","l"," ","T","o","w","e","r",",","2","0","2","3"," ","F","i","l","m"," ","F","e","s","t","i","v","a","l">>

FilterInputs ==
    {Join(<<",">>, its) : its \in UNION {[1..n -> FilterItems] : n \in 0..MaxItems}}
        \cup {FilterExample}

InitFilter ==
    /\ ChatIdle
    /\ fn_in \in FilterInputs
    /\ fn_out = <<>>

CleanCall ==
    /\ Len(fn_out) < 2
    /\ fn_out' = Append(fn_out, clean_places_to_visit(
                                   IF fn_out = <<>> THEN fn_in ELSE fn_out[Len(fn_out)]))
    /\ UNCHANGED <<last_city, parsed_info, turn, fetch_log, _cache, now, other, fn_in>>

SpecFilter == InitFilter /\ [][CleanCall]_vars

-----------------------------------------------------------------------------
(* Specification of the city and field detection alone: the utterance is    *)
(* at most MaxWords words separated by single spaces.                       *)

IntentWords ==
    { <<"t","i","m","e">>, <<"c","u","r","r","e","n","c","y">>, <<"c","o","u","n","t","r","y">>, <<"p","l","a","c","e","s">>, <<"w","e","a","t","h","e","r">>, <<"t","i","p","s">>,
      <<"o","f">>, <<"i","n">>, <<"j","a","p","a","n">>, <<"T","o","k","y","o">>, <<"B","e","r","l","i","n",",">>, <<"D","e","l","h","i">> }

IntentUtterances ==
    {Join(<<" ">>, ws) : ws \in UNION {[1..n -> IntentWords] : n \in 1..MaxWords}}

InitIntent ==
    /\ ChatIdle
    /\ fn_in \in IntentUtterances
    /\ fn_out = <<>>

\* the else branch of the handler up to the field loop, for an utterance
\* that is neither a greeting nor a farewell
IntentCall ==
    LET user_input == strip(fn_in)
        lower_input == lower(user_input)
    IN  /\ fn_out = <<>>
        /\ ~IsGreeting(lower_input)
        /\ ~IsFarewell(lower_input)
        /\ fn_out' = << <<DetectCity(user_input, lower_input), DetectField(lower_input)>> >>
        /\ UNCHANGED <<last_city, parsed_info, turn, fetch_log, _cache, now, other, fn_in>>

SpecIntent == InitIntent /\ [][IntentCall]_vars

-----------------------------------------------------------------------------
(* The claims                                                              *)

\* the blob of the documented "time of Delhi" example
DelhiBlob ==
    <<"D","e","s","t","i","n","a","t","i","o","n",":","D","e","l","h","i"," ","C","o","u","n","t","r","y",":","I","n","d","i","a"," ","S","t","a","n","d","a","r","d"," ","T","i","m","e"," ","/"," ","T","i","m","e","z","o","n","e",":","I","S","T"," ","C","u","r","r","e","n","c","y",":","I","N","R"," ","(","I","n","d","i","a","n"," ","R","u","p","e","e",")">>

\* C1: a turn whose utterance is "time of Delhi" goes through the city and
\* field resolution (city Delhi, field Standard Time / Timezone) and, the
\* provider answering the Delhi blob of the documentation, replies
\* "**Standard Time / Timezone:** IST".
C1_TimeOfDelhiReply ==
    turn.user_input = <<"t","i","m","e"," ","o","f"," ","D","e","l","h","i">> =>
        /\ turn.kind \in InFlight \cup {"query", "error"}
        /\ turn.city = <<"D","e","l","h","i">>
        /\ turn.found_field = <<"S","t","a","n","d","a","r","d"," ","T","i","m","e"," ","/"," ","T","i","m","e","z","o","n","e">>
        /\ turn.raw_info = DelhiBlob =>
              turn.bot_reply = <<"*","*","S","t","a","n","d","a","r","d"," ","T","i","m","e"," ","/"," ","T","i","m","e","z","o","n","e",":","*","*"," ","I","S","T">>

\* the step in which the handler takes a prompt (NewSession alone leaves
\* the kind "none")
TurnStarts == turn.kind \notin InFlight /\ turn' # turn /\ turn'.kind # "none"

\* the turn is neither a greeting nor a farewell
Resolved(t) == t.kind \in InFlight \cup {"query", "error"}

CacheWasValid == last_city = turn'.city /\ parsed_info # <<>>

\* C2 as stated: in every turn that is neither a greeting nor a farewell the
\* cached record is used, and no call to the provider made, if and only if
\* the stored city equals the resolved city and the cached record is not
\* empty.
C2_CacheUsedIffValid ==
    [][(TurnStarts /\ Resolved(turn')) => (~turn'.fetched <=> CacheWasValid)]_vars

\* C2 as amended: the cached record is used, and no call to the provider
\* made, if and only if the stored city equals the resolved city, the cached
\* record is not empty and the utterance asks for a field; the record used
\* is then the cached one.
C2_CacheUsedIffValidAndFieldAsked ==
    [][(TurnStarts /\ Resolved(turn')) =>
          /\ ~turn'.fetched <=> (CacheWasValid /\ turn'.found_field # None)
          /\ ~turn'.fetched => turn'.parsed_data = parsed_info]_vars

\* A field of Paris is answered from the cache.
C2_Witness ==
    /\ turn.kind = "query"
    /\ ~turn.fetched
    /\ turn.city = <<"P","a","r","i","s">>
    /\ turn.parsed_data # <<>>

\* The pieces of the blob under test: texts at the odd places, catalog
\* delimiters at the even places.
BlobParts == re_split(fn_in)

Occurrences == {i \in 1..Len(BlobParts) : i % 2 = 0}

\* the blob is made of "<CatalogName>:<value>" occurrences and nothing else
MadeOfOccurrences == Occurrences # {} /\ BlobParts[1] = <<>>

FollowingText(i) == BlobParts[i + 1]

NameOf(i) == SubSeq(BlobParts[i], 1, Len(BlobParts[i]) - 1)

\* an occurrence with some text that is not blank before the next delimiter
WithText == {i \in Occurrences : strip(FollowingText(i)) # <<>>}

\* no catalog name occurs twice (a mapping cannot hold a name twice)
NamesOccurOnce == \A i, j \in Occurrences : NameOf(i) = NameOf(j) => i = j

\* C3, for the blobs that name each catalog name once: the mapping has one
\* entry for each occurrence, less the occurrences with no text that is not
\* blank after them, and each counted key maps to the trimmed text that
\* follows it.
C3_EntryPerOccurrence ==
    (fn_out # <<>> /\ MadeOfOccurrences /\ NamesOccurOnce) =>
        /\ Len(fn_out[1]) = Cardinality(WithText)
        /\ \A i \in WithText :
              /\ DictHas(fn_out[1], NameOf(i))
              /\ DictGet(fn_out[1], NameOf(i)) = strip(FollowingText(i))

HasDelimiter(blob) == \E a \in 1..Len(pattern) : Contains(blob, pattern[a])

\* C4: when the blob fetched in a turn is empty or holds no catalog
\* delimiter, its parse is the empty mapping and the reply is the
\* unknown-city message or the English-only message.
C4_ProviderUnavailable ==
    /\ parse_raw_info(<<>>) = <<>>
    /\ (turn.kind = "query" /\ turn.fetched /\ ~HasDelimiter(turn.raw_info)) =>
          /\ turn.parsed_data = <<>>
          /\ parsed_info = <<>>
          /\ turn.bot_reply \in {UnknownCityReply(turn.city), EnglishOnlyReply}

\* The provider's apology has been fetched and answered by the unknown-city
\* message.
C4_Witness ==
    /\ turn.kind = "query"
    /\ turn.fetched
    /\ turn.raw_info = NotFoundBlob(turn.city)
    /\ ~HasDelimiter(turn.raw_info)
    /\ turn.bot_reply = UnknownCityReply(turn.city)

\* the aliases in the order the claim gives
ClaimedAliases ==
    << <<"c","o","u","n","t","r","y">>, <<"c","o","o","r","d","i","n","a","t","e">>, <<"l","o","c","a","t","i","o","n">>, <<"t","i","m","e">>, <<"t","i","m","e","z","o","n","e">>, <<"c","u","r","r","e","n","c","y">>,
       <<"w","e","a","t","h","e","r">>, <<"p","l","a","c","e">>, <<"a","t","t","r","a","c","t","i","o","n">>, <<"d","e","s","c","r","i","p","t","i","o","n">>, <<"t","i","p">> >>

AliasesIn(lower_input) ==
    {a \in 1..Len(ClaimedAliases) : Contains(lower_input, ClaimedAliases[a])}

FirstAliasIn(lower_input) ==
    CHOOSE a \in AliasesIn(lower_input) : \A b \in AliasesIn(lower_input) : a <= b

CanonicalOf(alias) == fields[CHOOSE i \in 1..Len(fields) : fields[i][1] = alias][2]

\* C5: the requested field is the canonical field of the first alias, in
\* catalog order, found in the lowercased utterance, and none when no alias
\* is found; "currency of japan" gives Currency and Japan, "Tokyo" gives
\* Tokyo and no field.
C5_FirstAliasWins ==
    fn_out # <<>> =>
        LET lower_input == lower(strip(fn_in))
            found_field == fn_out[1][2]
        IN  /\ [a \in 1..Len(fields) |-> fields[a][1]] = ClaimedAliases
            /\ AliasesIn(lower_input) = {} => found_field = None
            /\ AliasesIn(lower_input) # {} =>
                  found_field = CanonicalOf(ClaimedAliases[FirstAliasIn(lower_input)])
            /\ fn_in = <<"c","u","r","r","e","n","c","y"," ","o","f"," ","j","a","p","a","n">> => fn_out[1] = << <<"J","a","p","a","n">>, <<"C","u","r","r","e","n","c","y">> >>
            /\ fn_in = <<"T","o","k","y","o">> => fn_out[1] = << <<"T","o","k","y","o">>, None >>

\* An utterance holding the aliases of two different fields has been resolved.
C5_Witness ==
    /\ fn_out # <<>>
    /\ \E a, b \in AliasesIn(lower(strip(fn_in))) :
          CanonicalOf(ClaimedAliases[a]) # CanonicalOf(ClaimedAliases[b])

\* C6: clean_places_to_visit applied to its own result gives that result.
C6_Idempotent == Len(fn_out) = 2 => fn_out[2] = fn_out[1]

\* four digits that no letter, digit or underscore touches
StandaloneYearAt(item, i) ==
    /\ i + 3 <= Len(item)
    /\ {item[i], item[i + 1], item[i + 2], item[i + 3]} \subseteq DIGITS
    /\ i > 1 => ~IsWordChar(item[i - 1])
    /\ i + 3 < Len(item) => ~IsWordChar(item[i + 4])

ClaimKeeps(item) ==
    /\ ~\E i \in 1..Len(item) : StandaloneYearAt(item, i)
    /\ \A k \in 1..Len(keywords) : ~Contains(lower(item), keywords[k])

ClaimedClean(input) ==
    LET raw == split(input, ",")
        kept == SelectSeq([i \in 1..Len(raw) |-> strip(raw[i])], ClaimKeeps)
    IN  IF input = <<>> \/ kept = <<>> THEN NoSitesListed ELSE Join(<<","," ">>, kept)

\* C7: the result is the trimmed items that hold neither a standalone
\* 4-digit number nor one of the keywords in any case, in their order and
\* joined by ", ", and the sentinel when the input is empty or every item
\* is dropped; the example of the documentation gives "Paris, Eiffel Tower".
C7_FilterResult ==
    /\ fn_out # <<>> => fn_out[1] = ClaimedClean(fn_in)
    /\ Len(fn_out) = 2 => fn_out[2] = ClaimedClean(fn_out[1])
    /\ (fn_out # <<>> /\ fn_in = FilterExample) => fn_out[1] = <<"P","a","r","i","s",","," ","E","i","f","f","e","l"," ","T","o","w","e","r">>

\* An input with a kept item, an item dropped for a capitalised keyword and
\* an item dropped for a year has been filtered.
C7_Witness ==
    /\ fn_out # <<>>
    /\ fn_out[1] # NoSitesListed
    /\ Contains(fn_in, <<"R","a","c","e">>)
    /\ Contains(fn_in, <<"2","0","2","4"," ">>)
    /\ Contains(fn_in, <<"P","a","r","i","s">>)

\* C8: the language classifier is consulted only when the record is empty:
\* the English-only reply comes only with an empty record, and with a record
\* that is not empty the reply is the extracted field or the full rendering.
C8_EmptinessBeforeLanguage ==
    /\ turn.bot_reply = EnglishOnlyReply => (turn.kind = "query" /\ turn.parsed_data = <<>>)
    /\ turn.lang_checked => turn.parsed_data = <<>>
    /\ (turn.kind = "query" /\ turn.parsed_data # <<>>) =>
          /\ ~turn.lang_checked
          /\ turn.bot_reply =
                IF turn.found_field # None
                THEN extract_field(turn.parsed_data, turn.found_field)
                ELSE format_info_for_chat(turn.parsed_data)

\* A full rendering has been given for a record that is not empty.
C8_Witness ==
    /\ turn.kind = "query"
    /\ turn.parsed_data # <<>>
    /\ turn.found_field = None
    /\ turn.bot_reply = format_info_for_chat(turn.parsed_data)

\* between two runs of the handler
BetweenTurns == turn.kind \notin InFlight

CacheIsLatestFetch ==
    BetweenTurns =>
        IF fetch_log = <<>>
        THEN last_city = None /\ parsed_info = <<>>
        ELSE last_city = fetch_log[1] /\ parsed_info = parse_raw_info(fetch_log[2])

ReplyFromOwnCity ==
    turn.kind = "query" =>
        /\ fetch_log # <<>>
        /\ fetch_log[1] = turn.city
        /\ turn.parsed_data = parse_raw_info(fetch_log[2])

\* A fetch is a call of the provider that returned a blob.  The pair changes
\* in the step that stores the blob of such a call and in no other step of a
\* session; a turn that ends as it starts (greeting, farewell, cached
\* record) has made no fetch.
NoFetchKeepsCache ==
    /\ (turn.kind # "returned" /\ turn'.kind # "none") =>
          UNCHANGED <<last_city, parsed_info>>
    /\ (TurnStarts /\ turn'.kind \notin InFlight) =>
          UNCHANGED <<last_city, parsed_info, fetch_log>>
    /\ (turn.kind = "waiting" /\ turn'.kind = "error") =>
          UNCHANGED <<last_city, parsed_info, fetch_log>>

\* C9: between two runs of the handler the pair (last_city, parsed_info) is
\* the city and the parse of the blob of the latest fetch, an empty parse
\* included; a turn without a fetch leaves the pair as it is; the record a
\* reply is built from was parsed from a blob fetched for the city of that
\* turn.
C9_CacheCoherence ==
    /\ [](CacheIsLatestFetch /\ ReplyFromOwnCity)
    /\ [][NoFetchKeepsCache]_vars

\* A greeting has followed a fetch whose parse was empty.
C9_Witness ==
    /\ turn.kind = "greeting"
    /\ fetch_log # <<>>
    /\ last_city = <<"L","o","n","d","o","n">>
    /\ parsed_info = <<>>

CatalogNames == {keys[a] : a \in 1..Len(keys)}

\* C10: every key of the mapping parse_raw_info returns is one of the nine
\* catalog names.
C10_KeysAreCatalogNames ==
    fn_out # <<>> => DictKeys(fn_out[1]) \subseteq CatalogNames

\* A blob with a text piece ending with a colon has been parsed to a
\* mapping that is not empty.
C10_Witness ==
    /\ fn_out # <<>>
    /\ fn_out[1] # <<>>
    /\ \E i \in 1..Len(BlobParts) :
          i % 2 = 1 /\ BlobParts[i] # <<>> /\ endswith(BlobParts[i], <<":">>)

=============================================================================
